---- MODULE Spec2Model ----
(***************************************************************************)
(* Rent reconciliation: recon/matcher.py (preprocess, match),              *)
(* recon/rules.py (compute_findings), the findings merge of app.py and     *)
(* streamlit_app.py, and the Gemini summarizer of recon/llm_gemini.py.     *)
(*                                                                         *)
(* Conventions.  A text cell is a sequence of one-character strings; a     *)
(* null text cell is NullText, a null amount NaN.  Row positions are       *)
(* 1-based here (pandas' RangeIndex is 0-based).  An amount is a decimal   *)
(* number of thousandths of a currency unit as written in the CSV file;    *)
(* the double that pandas parses it into is modelled by DoubleResidue and  *)
(* AmountsClose.  A DataFrame of transaction rows is the set of the row    *)
(* positions it holds.                                                     *)
(***************************************************************************)
EXTENDS Integers, Sequences, FiniteSets, TLC

VARIABLES
    bank,             \* the bank CSV: sequence of transaction rows
    inv,              \* the invoice CSV: sequence of invoice rows
    pc,               \* "start" before a run, "found" before the merge, "merged" after
    extracted,        \* bank['_extracted_ref'] as preprocess computed it
    matches,          \* results: sequence of [txn, inv, match_type]
    unmatched_txns,   \* row positions of bank left unmatched
    unmatched_invs,   \* row positions of inv left unmatched
    matcher_findings, \* the findings mapping as match returned it
    findings,         \* the findings mapping after the merge
    strict_findings,  \* compute_findings' mapping
    prev,             \* the previous run's outcome ([done |-> FALSE] before it)
    api_key,          \* GEMINI_API_KEY is set
    stats,            \* the statistics bundle handed to summarize_report
    spc,              \* position in generate_action_plan_with_gemini
    attempt,          \* _retry_call's loop variable
    last_exc,         \* _retry_call's last_exc
    sleeps,           \* the time.sleep calls made, in tenths of a second
    summary           \* the returned text (<<>> before the return)

vars == <<bank, inv, pc, extracted, matches, unmatched_txns, unmatched_invs,
          matcher_findings, findings, strict_findings, prev,
          api_key, stats, spc, attempt, last_exc, sleeps, summary>>

reconVars == <<bank, inv, pc, extracted, matches, unmatched_txns, unmatched_invs,
               matcher_findings, findings, strict_findings, prev>>

llmVars == <<api_key, stats, spc, attempt, last_exc, sleeps, summary>>

\* a null text cell (None / NaN of an object column)
NullText == <<"<NA>">>

\* a null amount (NaN of a float column); amounts of the model are >= 0
NaN == -1

Max(S) == CHOOSE x \in S : \A y \in S : y <= x

Min(S) == CHOOSE x \in S : \A y \in S : x <= y

Abs(x) == IF x < 0 THEN -x ELSE x

(***************************************************************************)
(* Characters and the two reference patterns.                              *)
(***************************************************************************)
LowerLetters == {"a", "b", "p", "y"}

UpperLetters == {"A", "B", "C", "D", "P", "Y"}

Digits == {"0", "1", "2", "3", "4", "5", "6", "7", "8", "9"}

\* str.upper(), one character
UpperChar(c) ==
    CASE c = "a" -> "A"
      [] c = "b" -> "B"
      [] c = "p" -> "P"
      [] c = "y" -> "Y"
      [] OTHER -> c

\* str.upper()
Upper(s) == [i \in 1..Len(s) |-> UpperChar(s[i])]

\* str.strip(): drop leading and trailing whitespace
IsSpace(c) == c = " "

Strip(s) ==
    LET keep == {i \in 1..Len(s) : ~IsSpace(s[i])}
    IN  IF keep = {} THEN <<>> ELSE SubSeq(s, Min(keep), Max(keep))

\* \w of the re module
IsWordChar(c) == c \in UpperLetters \cup LowerLetters \cup Digits \cup {"_"}

\* [A-Z]
IsAZ(c) == c \in UpperLetters

\* \d
IsDigit(c) == c \in Digits

\* \b between txt[i-1] and txt[i]
WordBoundary(txt, i) ==
    LET before == i > 1 /\ IsWordChar(txt[i - 1])
        after  == i <= Len(txt) /\ IsWordChar(txt[i])
    IN  before # after

\* last position of the longest run of [A-Z] starting at i (i - 1: no run)
RECURSIVE LetterRunEnd(_, _)
LetterRunEnd(txt, i) ==
    IF i <= Len(txt) /\ IsAZ(txt[i]) THEN LetterRunEnd(txt, i + 1) ELSE i - 1

\* last position of the longest run of \d starting at i (i - 1: no run)
RECURSIVE DigitRunEnd(_, _)
DigitRunEnd(txt, i) ==
    IF i <= Len(txt) /\ IsDigit(txt[i]) THEN DigitRunEnd(txt, i + 1) ELSE i - 1

\* REF_PATTERNS[0] = \b[A-Z]{2,}-\d{1,}\b anchored at position i: the position
\* where the match ends, 0 when there is none.  Both quantifiers are greedy,
\* and backtracking finds nothing more: with letters given back the hyphen
\* would have to be a letter, with digits given back the closing \b would
\* stand between two digits.
EndHyphen(txt, i) ==
    LET l == LetterRunEnd(txt, i)
        d == DigitRunEnd(txt, l + 2)
    IN  IF /\ WordBoundary(txt, i)
           /\ l - i + 1 >= 2
           /\ l + 1 <= Len(txt) /\ txt[l + 1] = "-"
           /\ d - (l + 1) >= 1
           /\ WordBoundary(txt, d + 1)
        THEN d ELSE 0

\* REF_PATTERNS[1] = \b[A-Z]{2,}\d{2,}\b anchored at position i
EndPlain(txt, i) ==
    LET l == LetterRunEnd(txt, i)
        d == DigitRunEnd(txt, l + 1)
    IN  IF /\ WordBoundary(txt, i)
           /\ l - i + 1 >= 2
           /\ d - l >= 2
           /\ WordBoundary(txt, d + 1)
        THEN d ELSE 0

REF_PATTERNS == <<"hyphen", "plain">>

MatchEnd(p, txt, i) == IF p = "hyphen" THEN EndHyphen(txt, i) ELSE EndPlain(txt, i)

\* the first position from i on at which pattern p matches, 0 when none
RECURSIVE FirstStart(_, _, _)
FirstStart(p, txt, i) ==
    IF i > Len(txt) THEN 0
    ELSE IF MatchEnd(p, txt, i) # 0 THEN i
    ELSE FirstStart(p, txt, i + 1)

\* re.search(p, txt): the leftmost match; <<>> stands for no match (a match
\* of either pattern is never empty)
Search(p, txt) ==
    LET i == FirstStart(p, txt, 1)
    IN  IF i = 0 THEN <<>> ELSE SubSeq(txt, i, MatchEnd(p, txt, i))

\* extract_reference's loop over REF_PATTERNS[n..]
RECURSIVE FirstPatternHit(_, _)
FirstPatternHit(txt, n) ==
    IF n > Len(REF_PATTERNS) THEN <<>>
    ELSE LET m == Search(REF_PATTERNS[n], txt)
         IN  IF m # <<>> THEN m ELSE FirstPatternHit(txt, n + 1)

\* extract_reference(text)
ExtractReference(text) ==
    IF text = <<>> THEN <<>> ELSE FirstPatternHit(Upper(text), 1)

\* Series.fillna('') of a text cell
FillNa(cell) == IF cell = NullText THEN <<>> ELSE cell

\* preprocess: bank['_extracted_ref'] of one row
ExtractedRef(row) ==
    LET fromDescription == ExtractReference(FillNa(row.description))
    IN  IF fromDescription # <<>> THEN fromDescription
        ELSE ExtractReference(FillNa(row.reference))

(***************************************************************************)
(* Amounts.  pd.to_numeric parses the decimal n/1000 into the nearest      *)
(* IEEE-754 double m * 2^e (53-bit m).  With k = -e, the rounding error is *)
(* r * 2^e / 1000 where r is the residue of -(n * 2^k) modulo 1000 taken   *)
(* in (-500, 500): halves never occur because 8 divides 2^k and not 500.   *)
(* Valid for 0 <= n < 2^20 thousandths.                                    *)
(***************************************************************************)
RECURSIVE Pow2(_)
Pow2(k) == IF k = 0 THEN 1 ELSE 2 * Pow2(k - 1)

RECURSIVE Pow2Mod1000(_)
Pow2Mod1000(k) == IF k = 0 THEN 1 ELSE (2 * Pow2Mod1000(k - 1)) % 1000

\* E with 2^E <= n/1000 < 2^(E+1), n > 0
BinaryExponent(n) ==
    CHOOSE E \in -10..10 :
        /\ 1000 * Pow2(E + 10) <= n * 1024
        /\ n * 1024 < 1000 * Pow2(E + 11)

\* exponent of the unit in the last place of double(n/1000)
UlpExponent(n) == IF n = 0 THEN -58 ELSE BinaryExponent(n) - 52

\* 1000 * (double(n/1000) - n/1000) in units of 2^UlpExponent(n)
DoubleResidue(n) ==
    IF n = 0 THEN 0
    ELSE LET q == (n * Pow2Mod1000(-UlpExponent(n))) % 1000
         IN  IF q < 500 THEN -q ELSE 1000 - q

\* the literal 0.05 of the comparison, in thousandths
Tolerance == 50

\* abs(b_amt - i_amt) < 0.05 on the parsed doubles hi >= lo whose decimals
\* differ by exactly 0.05: the subtraction rounds to nearest, so the result
\* is below double(0.05) iff the exact difference is below the midpoint of
\* double(0.05) and its predecessor, double(0.05) - 2^-58 (the tie goes to
\* double(0.05), whose significand is even).
BoundaryClose(hi, lo) ==
    LET ea == UlpExponent(hi)
        eb == UlpExponent(lo)
        ec == UlpExponent(Tolerance)
        m0 == Min({ea, eb, -58})
    IN  DoubleResidue(hi) * Pow2(ea - m0) - DoubleResidue(lo) * Pow2(eb - m0)
          - DoubleResidue(Tolerance) * Pow2(ec - m0)
        < -(1000 * Pow2(-58 - m0))

\* b_amt is not None and i_amt is not None and abs(b_amt - i_amt) < 0.05
\* (a null amount is NaN after to_numeric and every comparison with it is
\* false); away from the boundary the parse error, below 2^-33, cannot decide
AmountsClose(b_amt, i_amt) ==
    /\ b_amt # NaN
    /\ i_amt # NaN
    /\ \/ Abs(b_amt - i_amt) < Tolerance
       \/ /\ Abs(b_amt - i_amt) = Tolerance
          /\ BoundaryClose(Max({b_amt, i_amt}), Min({b_amt, i_amt}))

(***************************************************************************)
(* match: the exact reference + amount pass.                               *)
(***************************************************************************)
\* key of an invoice reference in inv_by_ref: str(r).strip().upper()
RefKey(r) == Upper(Strip(r))

\* a lookup in which the first row with a key keeps its entry
RECURSIVE InvByRefFirstWins(_, _)
InvByRefFirstWins(invs, n) ==
    IF n = 0 THEN <<>>
    ELSE IF invs[n].reference = NullText THEN InvByRefFirstWins(invs, n - 1)
    ELSE InvByRefFirstWins(invs, n - 1) @@ (Upper(Strip(invs[n].reference)) :> n)

\* inv_by_ref after the dict comprehension has taken rows 1..n: a later row
\* overwrites the entry of an earlier row with the same key
RECURSIVE InvByRefUpTo(_, _)
InvByRefUpTo(invs, n) ==
    IF n = 0 THEN <<>>
    ELSE IF invs[n].reference = NullText THEN InvByRefUpTo(invs, n - 1)
    ELSE (RefKey(invs[n].reference) :> n) @@ InvByRefUpTo(invs, n - 1)

InvByRef(invs) == InvByRefUpTo(invs, Len(invs))

\* preprocess: the _extracted_ref column of rows 1..n
RECURSIVE ExtractedRefs(_, _)
ExtractedRefs(bk, n) ==
    IF n = 0 THEN <<>> ELSE Append(ExtractedRefs(bk, n - 1), ExtractedRef(bk[n]))

\* an iteration that does not look whether the invoice is still unmatched
MatchStepReuse(bk, invs, refs, inv_by_ref, st, bi) ==
    LET ref == refs[bi]
    IN  IF /\ ref \in DOMAIN inv_by_ref
           /\ AmountsClose(bk[bi].amount, invs[inv_by_ref[ref]].amount)
        THEN [results |-> Append(st.results,
                            [txn |-> bi, inv |-> inv_by_ref[ref], match_type |-> "exact_ref"]),
              txns |-> st.txns \ {bi},
              invs |-> st.invs \ {inv_by_ref[ref]}]
        ELSE st

\* one iteration of the loop for transaction bi; st = [results, txns, invs]
MatchStep(bk, invs, refs, inv_by_ref, st, bi) ==
    LET ref == refs[bi]
    IN  IF /\ ref \in DOMAIN inv_by_ref
           /\ inv_by_ref[ref] \in st.invs
           /\ AmountsClose(bk[bi].amount, invs[inv_by_ref[ref]].amount)
        THEN [results |-> Append(st.results,
                            [txn |-> bi, inv |-> inv_by_ref[ref], match_type |-> "exact_ref"]),
              txns |-> st.txns \ {bi},
              invs |-> st.invs \ {inv_by_ref[ref]}]
        ELSE st

\* the loop "for bi in list(unmatched_txns_idx)" visiting order[n..]
RECURSIVE MatchLoop(_, _, _, _, _, _, _)
MatchLoop(bk, invs, refs, inv_by_ref, order, n, st) ==
    IF n > Len(order) THEN st
    ELSE MatchLoop(bk, invs, refs, inv_by_ref, order, n + 1,
                   MatchStep(bk, invs, refs, inv_by_ref, st, order[n]))

\* the orders in which list(set(bank.index)) can list the rows
VisitOrders(n) == {o \in [1..n -> 1..n] : \A i, j \in 1..n : i # j => o[i] # o[j]}

\* the placeholder findings match returns
MatcherFindings ==
    [k \in {"duplicate_txn", "partials"} |->
        IF k = "duplicate_txn" THEN [type |-> "DataFrame", rows |-> {}]
        ELSE [type |-> "list", rows |-> {}]]

\* match(bank_df, inv_df) after preprocess, the pool visited in the given order
Match(bk, invs, refs, inv_by_ref, order) ==
    MatchLoop(bk, invs, refs, inv_by_ref, order, 1,
              [results |-> <<>>, txns |-> 1..Len(bk), invs |-> 1..Len(invs)])

(***************************************************************************)
(* compute_findings.                                                       *)
(***************************************************************************)
DataFrame(rows) == [type |-> "DataFrame", rows |-> rows]

\* duplicated(..., keep='first'): only the repeats after the first are marked
DupMaskKeepFirst(bk, un) ==
    {i \in un : \E j \in un :
        j < i /\ bk[j].amount = bk[i].amount /\ bk[j].date = bk[i].date}

\* DataFrame.duplicated(subset=['amount', 'date'], keep=False) over the rows un
\* (pandas counts two NaN amounts as equal)
DupMask(bk, un) ==
    {i \in un : \E j \in un :
        j # i /\ bk[j].amount = bk[i].amount /\ bk[j].date = bk[i].date}

\* the k-th smallest (k from 1) of the non-null amounts of the rows un
KthAmount(bk, un, k) ==
    LET vals == {i \in un : bk[i].amount # NaN}
    IN  CHOOSE a \in {bk[i].amount : i \in vals} :
            /\ Cardinality({i \in vals : bk[i].amount < a}) < k
            /\ k <= Cardinality({i \in vals : bk[i].amount <= a})

\* ten times Series.quantile(0.90): NaN is skipped, linear interpolation
\* between the order statistics around position (n - 1) * 0.9 (from 0);
\* NaN when no amount is left
Quantile90x10(bk, un) ==
    LET n   == Cardinality({i \in un : bk[i].amount # NaN})
        pos == 9 * (n - 1)
        lo  == pos \div 10
        g   == pos % 10
        a   == KthAmount(bk, un, lo + 1)
        b   == KthAmount(bk, un, IF g = 0 THEN lo + 1 ELSE lo + 2)
    IN  IF n = 0 THEN NaN ELSE 10 * a + (b - a) * g

\* a mask of the amounts strictly above the threshold
HighValueMaskStrict(bk, un) ==
    LET threshold == Quantile90x10(bk, un)
    IN  {i \in un : bk[i].amount # NaN /\ threshold # NaN /\ 10 * bk[i].amount > threshold}

\* bank_unmatched['amount'] >= threshold (false on NaN on either side)
HighValueMask(bk, un) ==
    LET threshold == Quantile90x10(bk, un)
    IN  {i \in un : bk[i].amount # NaN /\ threshold # NaN /\ 10 * bk[i].amount >= threshold}

\* compute_findings(matches, bank_unmatched, inv_unmatched): preprocess has
\* made sure the amount and date columns exist
ComputeFindings(bk, un) ==
    [k \in {"duplicate_txn"} \cup (IF un # {} THEN {"high_value_unmatched"} ELSE {}) |->
        IF k = "duplicate_txn"
        THEN (IF un # {} THEN DataFrame(DupMask(bk, un)) ELSE DataFrame({}))
        ELSE DataFrame(HighValueMask(bk, un))]

(***************************************************************************)
(* The findings merge of app.main and of the Run Reconciliation handler.   *)
(***************************************************************************)
\* a merge in which the rule-based result always wins
MergedValueStrictWins(fnd, strict, k) ==
    IF k \notin DOMAIN strict THEN fnd[k] ELSE strict[k]

\* the value of findings[k] after the loop over strict_findings.items()
MergedValue(fnd, strict, k) ==
    IF k \notin DOMAIN strict THEN fnd[k]
    ELSE IF k \notin DOMAIN fnd THEN strict[k]
    ELSE IF fnd[k].type = "DataFrame" /\ fnd[k].rows = {} /\ strict[k].rows # {}
         THEN strict[k]
    ELSE fnd[k]

MergeFindings(fnd, strict) ==
    [k \in DOMAIN fnd \cup DOMAIN strict |-> MergedValue(fnd, strict, k)]

(***************************************************************************)
(* Input files.                                                            *)
(***************************************************************************)
MaxBankRows == 2

MaxInvRows == 2

MaxFindRows == 3

MaxWords == 2

MaxMergeRows == 2

MaxStat == 2

\* sequences over S of length at most n
SeqsUpTo(S, n) == UNION {[1..m -> S] : m \in 0..n}

RefCode == <<"a", "b", "-", "1">>

NoCode == <<"p", "a", "y">>

\* bank rows of the matching runs: a row with a reference code and amounts
\* around the tolerance (100.00, 100.049, 100.05) or null, a row without code
MatchTxnRows ==
    [description : {RefCode}, reference : {NullText},
     amount : {NaN, 100000, 100049, 100050}, date : {1}]
    \cup [description : {NoCode}, reference : {NullText}, amount : {100000}, date : {1}]

\* invoice rows of the matching runs: the code as the ledger holds it, with
\* different case and padding, and a null cell
MatchInvRows ==
    [reference : {NullText, <<" ", "a", "b", "-", "1">>}, amount : {100000}]
    \cup [reference : {<<"A", "B", "-", "1">>}, amount : {NaN, 200000}]

\* bank rows of the findings runs: amounts 100.00 and 500.00, two dates
FindTxnRows ==
    [description : {NoCode}, reference : {NullText},
     amount : {NaN, 100000, 500000}, date : {1, 2}]
    \cup [description : {RefCode}, reference : {NullText}, amount : {100000}, date : {1, 2}]

FindInvRows == [reference : {<<"A", "B", "-", "1">>}, amount : {100000}]

\* words a description is made of: codes of either pattern and near misses
Words ==
    { <<"a", "b", "-", "1">>, <<"C", "D", "2", "2">>, <<"p", "a", "y">>,
      <<"a", "b", "1">>, <<"a", "-", "1">>, <<"_", "C", "D", "-", "2">> }

\* the words joined by single spaces
RECURSIVE Join(_)
Join(ws) ==
    IF ws = <<>> THEN <<>>
    ELSE IF Len(ws) = 1 THEN ws[1]
    ELSE ws[1] \o <<" ">> \o Join(Tail(ws))

Descriptions == {Join(ws) : ws \in SeqsUpTo(Words, MaxWords)}

ExtractTxnRows ==
    [description : Descriptions \cup {NullText},
     reference : {NullText, <<"D", "D", "-", "9">>, <<"p", "a", "y">>},
     amount : {100000}, date : {1}]

NoOutcome == [done |-> FALSE]

\* the state before the first run, whatever the files hold
Loaded(bk, invs) ==
    /\ bank = bk
    /\ inv = invs
    /\ pc = "start"
    /\ extracted = <<>>
    /\ matches = <<>>
    /\ unmatched_txns = {}
    /\ unmatched_invs = {}
    /\ matcher_findings = <<>>
    /\ findings = <<>>
    /\ strict_findings = <<>>
    /\ prev = NoOutcome

\* the summarizer is not entered
LlmIdle ==
    /\ api_key = FALSE
    /\ stats = [matches |-> 0, unmatched_txn |-> 0, null_description |-> FALSE]
    /\ spc = "idle"
    /\ attempt = 0
    /\ last_exc = "none"
    /\ sleeps = <<>>
    /\ summary = <<>>

Init ==
    /\ \E bk \in SeqsUpTo(MatchTxnRows, MaxBankRows) :
       \E invs \in SeqsUpTo(MatchInvRows, MaxInvRows) : Loaded(bk, invs)
    /\ LlmIdle

InitFind ==
    /\ \E bk \in SeqsUpTo(FindTxnRows, MaxFindRows) :
       \E invs \in SeqsUpTo(FindInvRows, 1) : Loaded(bk, invs)
    /\ LlmIdle

InitExtract ==
    /\ \E row \in ExtractTxnRows : Loaded(<<row>>, <<>>)
    /\ LlmIdle

\* bank rows without a code in description or reference, and one with a code
BlankTxnRows ==
    [description : {NoCode, NullText}, reference : {NullText}, amount : {100000}, date : {1}]
    \cup [description : {RefCode}, reference : {NullText}, amount : {100000}, date : {1}]

\* invoice rows whose reference cell is empty, blank, null or a code
BlankInvRows ==
    [reference : {<<>>, <<" ">>, NullText, <<"A", "B", "-", "1">>}, amount : {100000}]

InitBlank ==
    /\ \E bk \in SeqsUpTo(BlankTxnRows, MaxBankRows) :
       \E invs \in SeqsUpTo(BlankInvRows, MaxInvRows) : Loaded(bk, invs)
    /\ LlmIdle

(***************************************************************************)
(* Run Reconciliation: match, compute_findings, the merge.  The button can *)
(* be pressed again on the same files; prev keeps the outcome of the run   *)
(* before.                                                                 *)
(***************************************************************************)
Outcome == [done |-> TRUE, matches |-> matches,
            unmatched_txns |-> unmatched_txns, unmatched_invs |-> unmatched_invs]

Run ==
    /\ \E refs \in {ExtractedRefs(bank, Len(bank))} :
       \E inv_by_ref \in {InvByRef(inv)} :
       \E order \in VisitOrders(Len(bank)) :
       \E r \in {Match(bank, inv, refs, inv_by_ref, order)} :
       \E strict \in {ComputeFindings(bank, r.txns)} :
            /\ extracted' = refs
            /\ matches' = r.results
            /\ unmatched_txns' = r.txns
            /\ unmatched_invs' = r.invs
            /\ matcher_findings' = MatcherFindings
            /\ strict_findings' = strict
            /\ findings' = MergeFindings(MatcherFindings, strict)
    /\ prev' = IF pc = "start" THEN NoOutcome ELSE Outcome
    /\ pc' = "merged"
    /\ UNCHANGED <<bank, inv>>
    /\ UNCHANGED llmVars

Next == Run

Spec == Init /\ [][Next]_vars

SpecFind == InitFind /\ [][Next]_vars

SpecExtract == InitExtract /\ [][Next]_vars

SpecBlank == InitBlank /\ [][Next]_vars

(***************************************************************************)
(* The merge alone, over every findings mapping a matcher of the same      *)
(* types could return: duplicate_txn a DataFrame, partials a list,         *)
(* high_value_unmatched absent or a DataFrame.                             *)
(***************************************************************************)
MergeRowSets == SUBSET (1..MaxMergeRows)

\* a mapping over keys whose values are DataFrames, plus the partials list
FindingsOver(dup, hv, withPartials) ==
    [k \in {"duplicate_txn"} \cup (IF hv = <<>> THEN {} ELSE {"high_value_unmatched"})
           \cup (IF withPartials THEN {"partials"} ELSE {}) |->
        IF k = "duplicate_txn" THEN DataFrame(dup)
        ELSE IF k = "partials" THEN [type |-> "list", rows |-> {}]
        ELSE DataFrame(hv[1])]

OptionalRowSets == {<<>>} \cup {<<r>> : r \in MergeRowSets}

InitMerge ==
    /\ bank = <<>>
    /\ inv = <<>>
    /\ pc = "found"
    /\ extracted = <<>>
    /\ matches = <<>>
    /\ unmatched_txns = {}
    /\ unmatched_invs = {}
    /\ \E dup \in MergeRowSets : \E hv \in OptionalRowSets :
          matcher_findings = FindingsOver(dup, hv, TRUE)
    /\ findings = matcher_findings
    /\ \E dup \in MergeRowSets : \E hv \in OptionalRowSets :
          strict_findings = FindingsOver(dup, hv, FALSE)
    /\ prev = NoOutcome
    /\ LlmIdle

\* the loop "for k, v in strict_findings.items()"
Merge ==
    /\ pc = "found"
    /\ findings' = MergeFindings(findings, strict_findings)
    /\ pc' = "merged"
    /\ UNCHANGED <<bank, inv, extracted, matches, unmatched_txns, unmatched_invs,
                   matcher_findings, strict_findings, prev>>
    /\ UNCHANGED llmVars

NextMerge == Merge

SpecMerge == InitMerge /\ [][NextMerge]_vars

(***************************************************************************)
(* summarize_report / generate_action_plan_with_gemini / _retry_call.      *)
(* A text is a sequence of its parts.                                      *)
(***************************************************************************)
\* retries=2 of the call _retry_call(call_gemini, retries=2)
Retries == 2

\* backoff_base=0.6, in tenths of a second
BackoffBase == 6

\* exceptions generate_content can raise
RemoteErrors == {"ServerError", "ClientError", "Timeout"}

\* texts the remote model can answer with
RemoteTexts == {"plan A", "plan B"}

\* get_local_fallback()
LocalFallback == <<"[AI Summary: Local Fallback]">>

\* get_local_fallback() + f"\n\n*(API Error: {str(e)})*"
FallbackWithError(e) == LocalFallback \o <<"(API Error: ", e, ")">>

\* _build_prompt raises on t.get('description', '').strip() when one of the
\* first unmatched transactions has a null description
BuildPromptRaises(st) == st.null_description

StatsBundles ==
    {st \in [matches : 0..MaxStat, unmatched_txn : 0..MaxStat, null_description : BOOLEAN] :
        st.null_description => st.unmatched_txn > 0}

InitSummary ==
    /\ Loaded(<<>>, <<>>)
    /\ api_key \in BOOLEAN
    /\ stats \in StatsBundles
    /\ spc = "entry"
    /\ attempt = 0
    /\ last_exc = "none"
    /\ sleeps = <<>>
    /\ summary = <<>>

\* generate_action_plan_with_gemini up to the call of _retry_call
Enter ==
    /\ spc = "entry"
    /\ IF ~api_key
       THEN /\ summary' = LocalFallback
            /\ spc' = "returned"
            /\ UNCHANGED attempt
       ELSE IF BuildPromptRaises(stats)
       THEN /\ summary' = FallbackWithError("AttributeError")
            /\ spc' = "returned"
            /\ UNCHANGED attempt
       ELSE /\ spc' = "calling"
            /\ attempt' = 1
            /\ UNCHANGED summary
    /\ UNCHANGED <<api_key, stats, last_exc, sleeps>>
    /\ UNCHANGED reconVars

\* fn() returns: _retry_call returns its result at once
AttemptSucceeds ==
    /\ spc = "calling"
    /\ \E text \in RemoteTexts : summary' = <<text>>
    /\ spc' = "returned"
    /\ UNCHANGED <<api_key, stats, attempt, last_exc, sleeps>>
    /\ UNCHANGED reconVars

\* a loop over range(1, retries + 3): one attempt too many
AttemptFailsOneMore ==
    /\ spc = "calling"
    /\ \E e \in RemoteErrors :
        /\ last_exc' = e
        /\ sleeps' = Append(sleeps, BackoffBase * attempt)
        /\ IF attempt < Retries + 2
           THEN /\ attempt' = attempt + 1
                /\ UNCHANGED <<spc, summary>>
           ELSE /\ summary' = FallbackWithError(e)
                /\ spc' = "returned"
                /\ UNCHANGED attempt
    /\ UNCHANGED <<api_key, stats>>
    /\ UNCHANGED reconVars

\* fn() raises: the except branch sleeps, then the loop goes on or, after
\* attempt retries + 1, last_exc is raised into the caller's except branch
AttemptFails ==
    /\ spc = "calling"
    /\ \E e \in RemoteErrors :
        /\ last_exc' = e
        /\ sleeps' = Append(sleeps, BackoffBase * attempt)
        /\ IF attempt < Retries + 1
           THEN /\ attempt' = attempt + 1
                /\ UNCHANGED <<spc, summary>>
           ELSE /\ summary' = FallbackWithError(e)
                /\ spc' = "returned"
                /\ UNCHANGED attempt
    /\ UNCHANGED <<api_key, stats>>
    /\ UNCHANGED reconVars

NextSummary == Enter \/ AttemptSucceeds \/ AttemptFails

SpecSummary == InitSummary /\ [][NextSummary]_vars

\* every call of fn() returns or raises (the HTTP client gives up on a dead
\* connection) and every time.sleep ends, so the summarizer keeps stepping
SpecSummaryFair == SpecSummary /\ WF_vars(NextSummary)

(***************************************************************************)
(* Properties.                                                             *)
(***************************************************************************)
\* rows of matches that hold transaction i / invoice i
TxnMatchRows(i) == {k \in 1..Len(matches) : matches[k].txn = i}

InvMatchRows(i) == {k \in 1..Len(matches) : matches[k].inv = i}

\* the lookup key of invoice row i (its reference is not null)
InvKey(i) == Upper(Strip(inv[i].reference))

\* C1: after a run every transaction is either in exactly one row of matches
\* or in unmatched_txns, never both, never neither; the same for invoices
\* and unmatched_invs; the sizes add up to the sizes of the inputs.
PartitionInvariant ==
    pc = "merged" =>
        /\ unmatched_txns \subseteq 1..Len(bank)
        /\ unmatched_invs \subseteq 1..Len(inv)
        /\ \A i \in 1..Len(bank) :
              Cardinality(TxnMatchRows(i)) = (IF i \in unmatched_txns THEN 0 ELSE 1)
        /\ \A i \in 1..Len(inv) :
              Cardinality(InvMatchRows(i)) = (IF i \in unmatched_invs THEN 0 ELSE 1)
        /\ \A k \in 1..Len(matches) :
              matches[k].txn \in 1..Len(bank) /\ matches[k].inv \in 1..Len(inv)
        /\ Len(matches) + Cardinality(unmatched_txns) = Len(bank)
        /\ Len(matches) + Cardinality(unmatched_invs) = Len(inv)

\* C1 witness: two transactions carry the reference of one invoice with
\* agreeing amounts; one is matched, the other and a second invoice are left
PartitionWitness ==
    /\ pc = "merged"
    /\ Len(bank) = 2 /\ Len(inv) = 2
    /\ extracted[1] = extracted[2] /\ extracted[1] # <<>>
    /\ bank[1].amount = 100000 /\ bank[2].amount = 100000
    /\ Len(matches) = 1
    /\ Cardinality(unmatched_txns) = 1
    /\ Cardinality(unmatched_invs) = 1

\* the amounts as written differ by strictly less than 0.05, none is null
DecimalClose(b_amt, i_amt) ==
    b_amt # NaN /\ i_amt # NaN /\ Abs(b_amt - i_amt) < 50

\* C2: every row of matches has non-null amounts that differ by strictly
\* less than 0.05, and a transaction that alone carries the reference of
\* exactly one invoice is matched to it if and only if the amounts do; a
\* difference of exactly 0.05 does not match.
ExactRefWithinTolerance ==
    pc = "merged" =>
        /\ \A k \in 1..Len(matches) :
              DecimalClose(bank[matches[k].txn].amount, inv[matches[k].inv].amount)
        /\ \A bi \in 1..Len(bank) : \A ii \in 1..Len(inv) :
              ( /\ inv[ii].reference # NullText
                /\ InvKey(ii) = extracted[bi]
                /\ \A jj \in 1..Len(inv) :
                      (jj # ii /\ inv[jj].reference # NullText) => InvKey(jj) # extracted[bi]
                /\ \A bj \in 1..Len(bank) : bj # bi => extracted[bj] # extracted[bi] )
              => ( (\E k \in 1..Len(matches) : matches[k].txn = bi /\ matches[k].inv = ii)
                   <=> DecimalClose(bank[bi].amount, inv[ii].amount) )

LastInvoiceWins ==
    pc = "merged" =>
        /\ \A ii \in 1..Len(inv) :
              inv[ii].reference = NullText => ii \in unmatched_invs
        /\ \A ii, jj \in 1..Len(inv) :
              ( /\ ii < jj
                /\ inv[ii].reference # NullText /\ inv[jj].reference # NullText
                /\ InvKey(ii) = InvKey(jj) )
              => ii \in unmatched_invs
        /\ \A k \in 1..Len(matches) :
              /\ inv[matches[k].inv].reference # NullText
              /\ InvKey(matches[k].inv) = extracted[matches[k].txn]
              /\ matches[k].inv =
                    Max({ii \in 1..Len(inv) :
                            /\ inv[ii].reference # NullText
                            /\ InvKey(ii) = extracted[matches[k].txn]})

\* C10 witness: the earlier of two invoices with one key agrees in amount
\* with a transaction carrying the key, the later does not: nothing matches
LastInvoiceWinsWitness ==
    /\ pc = "merged"
    /\ Len(inv) = 2 /\ Len(bank) >= 1
    /\ inv[1].reference # NullText /\ inv[2].reference # NullText
    /\ inv[1].reference # inv[2].reference
    /\ InvKey(1) = InvKey(2)
    /\ extracted[1] = InvKey(1)
    /\ bank[1].amount = inv[1].amount
    /\ inv[2].amount = 200000
    /\ matches = <<>>
    /\ unmatched_invs = {1, 2}

\* the (amount, date) pair of bank row i occurs this often among the
\* unmatched transactions
PairCount(i) ==
    Cardinality({j \in unmatched_txns :
                    bank[j].amount = bank[i].amount /\ bank[j].date = bank[i].date})

\* C4: duplicate_txn holds exactly the unmatched transactions whose
\* (amount, date) pair occurs more than once among the unmatched
\* transactions, all occurrences of it, and no matched transaction.
DuplicateTxnExact ==
    pc = "merged" =>
        /\ "duplicate_txn" \in DOMAIN strict_findings
        /\ strict_findings["duplicate_txn"].rows =
              {i \in unmatched_txns : PairCount(i) > 1}
        /\ \A k \in 1..Len(matches) :
              matches[k].txn \notin strict_findings["duplicate_txn"].rows

\* C4 witness: two unmatched transactions of 500.00 on one date are both
\* flagged, a third of another amount on that date is not
DuplicateTxnWitness ==
    /\ pc = "merged"
    /\ unmatched_txns = {1, 2, 3}
    /\ bank[1].amount = 500000 /\ bank[2].amount = 500000 /\ bank[3].amount = 100000
    /\ bank[1].date = bank[2].date /\ bank[3].date = bank[1].date
    /\ strict_findings["duplicate_txn"].rows = {1, 2}

\* the non-null amounts of the rows S in ascending order
RECURSIVE SortedAmounts(_)
SortedAmounts(S) ==
    LET vals == {i \in S : bank[i].amount # NaN}
    IN  IF vals = {} THEN <<>>
        ELSE LET m == CHOOSE i \in vals : \A j \in vals : bank[i].amount <= bank[j].amount
             IN  <<bank[m].amount>> \o SortedAmounts(vals \ {m})

\* amount x is at or above the 90th percentile of the sorted amounts v: the
\* percentile lies between v[lo] and v[hi] around position 0.9 * (n - 1),
\* weighted by the remainder of the position
AtOrAbove90th(x, v) ==
    LET h  == 9 * (Len(v) - 1)
        w  == h % 10
        lo == (h \div 10) + 1
        hi == IF w = 0 THEN lo ELSE lo + 1
    IN  10 * x >= (10 - w) * v[lo] + w * v[hi]

\* ten bank rows with the amounts 10, 20, ..., 100
TenAmounts ==
    [i \in 1..10 |-> [description |-> NoCode, reference |-> NullText,
                      amount |-> 10000 * i, date |-> 1]]

\* C5: when transactions are left unmatched, high_value_unmatched holds
\* exactly those of them whose amount is not null and at or above the 90th
\* percentile of the non-null unmatched amounts; for the amounts 10..100
\* that is the record of 100 alone.
HighValueExact ==
    /\ (pc = "merged" /\ unmatched_txns # {}) =>
          /\ "high_value_unmatched" \in DOMAIN strict_findings
          /\ \E v \in {SortedAmounts(unmatched_txns)} :
                strict_findings["high_value_unmatched"].rows =
                    {i \in unmatched_txns :
                        bank[i].amount # NaN /\ AtOrAbove90th(bank[i].amount, v)}
    /\ HighValueMask(TenAmounts, 1..10) = {10}

\* C5 witness: of three unmatched transactions with amounts null, 100.00
\* and 500.00 only the one of 500.00 is flagged
HighValueWitness ==
    /\ pc = "merged"
    /\ unmatched_txns = {1, 2, 3}
    /\ bank[1].amount = NaN /\ bank[2].amount = 100000 /\ bank[3].amount = 500000
    /\ strict_findings["high_value_unmatched"].rows = {3}

\* C6: with no unmatched transaction, or only null amounts, compute_findings
\* returns an empty finding set under duplicate_txn and under
\* high_value_unmatched.
EmptyInputsGiveEmptyFindings ==
    (pc = "merged" /\ \A i \in unmatched_txns : bank[i].amount = NaN) =>
        \A k \in {"duplicate_txn", "high_value_unmatched"} :
            k \in DOMAIN strict_findings /\ strict_findings[k].rows = {}

\* C3: for every category of compute_findings' result the merged value is
\* that result if the category is absent from the matcher's findings or
\* empty there while the result is not; otherwise, and for the categories
\* only the matcher has, it is the matcher's value.
MergePrecedence ==
    pc = "merged" =>
        /\ DOMAIN findings = DOMAIN matcher_findings \cup DOMAIN strict_findings
        /\ \A k \in DOMAIN strict_findings :
              IF \/ k \notin DOMAIN matcher_findings
                 \/ matcher_findings[k].rows = {} /\ strict_findings[k].rows # {}
              THEN findings[k] = strict_findings[k]
              ELSE findings[k] = matcher_findings[k]
        /\ \A k \in DOMAIN matcher_findings \ DOMAIN strict_findings :
              findings[k] = matcher_findings[k]

\* C3 witness: the matcher's duplicate_txn is empty and the rules give two
\* rows: two rows; the matcher's high_value_unmatched has one row and the
\* rules give two: that one row
MergePrecedenceWitness ==
    /\ pc = "merged"
    /\ matcher_findings["duplicate_txn"].rows = {}
    /\ strict_findings["duplicate_txn"].rows = {1, 2}
    /\ findings["duplicate_txn"].rows = {1, 2}
    /\ "high_value_unmatched" \in DOMAIN matcher_findings
    /\ "high_value_unmatched" \in DOMAIN strict_findings
    /\ matcher_findings["high_value_unmatched"].rows = {1}
    /\ strict_findings["high_value_unmatched"].rows = {1, 2}
    /\ findings["high_value_unmatched"].rows = {1}

\* C8: whenever the summarizer returns without an API key, or after every
\* one of the retries + 1 attempts failed, it returns the fixed local
\* fallback message, whatever the statistics and the failure.
FallbackIsFixed ==
    (spc = "returned" /\ (~api_key \/ Len(sleeps) = Retries + 1)) =>
        summary = LocalFallback

\* the leftmost code of either pattern in a text, <<>> when there is none
LeftmostCode(text) ==
    LET txt == Upper(text)
        starts == {i \in 1..Len(txt) : EndHyphen(txt, i) # 0 \/ EndPlain(txt, i) # 0}
    IN  IF starts = {} THEN <<>>
        ELSE SubSeq(txt, Min(starts),
                    Max({EndHyphen(txt, Min(starts)), EndPlain(txt, Min(starts))}))

\* C9: the extracted reference is the leftmost code of either pattern in
\* the description; the reference field is used only when the description
\* has no code; the empty string when neither has one.
LeftmostReference ==
    pc = "merged" =>
        \A i \in 1..Len(bank) :
            extracted[i] =
                IF LeftmostCode(FillNa(bank[i].description)) # <<>>
                THEN LeftmostCode(FillNa(bank[i].description))
                ELSE LeftmostCode(FillNa(bank[i].reference))

\* C11: a transaction whose extracted reference is the empty string is never
\* matched and ends in unmatched_txns, whatever the invoices are, also when
\* an invoice has an empty or blank reference and the same amount.
EmptyRefNeverMatched ==
    pc = "merged" =>
        \A i \in 1..Len(bank) :
            extracted[i] = <<>> => (i \in unmatched_txns /\ TxnMatchRows(i) = {})

\* the texts the except branch and the no-key branch return
FallbackResults == {LocalFallback} \cup {FallbackWithError(e) : e \in RemoteErrors \cup {"AttributeError"}}

\* the waits made so far: backoff_base x attempt number after each failure
LinearBackoff == \A k \in 1..Len(sleeps) : sleeps[k] = BackoffBase * k

\* what a finished call with an API key looks like: the text of the first
\* attempt that succeeded, every attempt before it having failed and been
\* waited for, or the local fallback result with no attempt made or with
\* all retries + 1 attempts failed
ReturnedAsRetried ==
    (spc = "returned" /\ api_key) =>
        \/ /\ summary \in {<<text>> : text \in RemoteTexts}
           /\ attempt \in 1..(Retries + 1)
           /\ Len(sleeps) = attempt - 1
        \/ /\ summary \in FallbackResults
           /\ \/ attempt = 0 /\ sleeps = <<>>
              \/ attempt = Retries + 1 /\ Len(sleeps) = Retries + 1

====
